---- MODULE Spec2Model ----
(***************************************************************************)
(* Model of pygamma/alignement.py: the disorder of a unitary alignement,   *)
(* the set-partition test of Alignement and BestAlignement, the candidate  *)
(* generation and pruning of get_unitary_alignements_best, and the integer *)
(* linear program it hands to cvxpy.                                       *)
(*                                                                         *)
(* Numbers.  Dissimilarities and DELTA_EMPTY are non-negative multiples of *)
(* a grid step (one model unit stands for 0.2), and every quotient is kept *)
(* as an exact fraction [num, den]; 0/0 is the IEEE not-a-number, which    *)
(* compares false with everything.  Rounding of binary floating point is   *)
(* not modelled.                                                           *)
(*                                                                         *)
(* Continuum.  A continuum is the sequence of the annotators' unit counts: *)
(* annotator a holds the units 1..continuum[a], iterated in that order.    *)
(* A slot of an n_tuple is the pair <<annotator, unit>>, unit = None for   *)
(* the empty slot.                                                         *)
(***************************************************************************)
EXTENDS Integers, Sequences, FiniteSets, TLC

\* ------------------------------------------------------------------ bounds
MaxAnnotators == 3

MaxTotalUnits == 3

MaxGroupings == 2

\* values of the dissimilarity between two units, in grid steps
DistValues == {1, 3}

\* values of DELTA_EMPTY, in grid steps
GapCosts == {0, 1, 2, 5}

\* the empty slot of an n_tuple (Python None); units are numbered from 1
None == 0

\* ------------------------------------------------------- exact fractions
NaN == [num |-> 0, den |-> 0]

RECURSIVE GCD(_, _)
GCD(a, b) == IF b = 0 THEN a ELSE GCD(b, a % b)

Reduce(r) ==
    IF r.den = 0 THEN NaN
    ELSE LET g == GCD(r.num, r.den)
         IN  [num |-> r.num \div g, den |-> r.den \div g]

FromInt(k) == [num |-> k, den |-> 1]

IsNaN(r) == r.den = 0

\* a + b on floats; not-a-number is absorbing
Add(a, b) ==
    Reduce([num |-> a.num * b.den + b.num * a.den, den |-> a.den * b.den])

\* r / k for a count k; 0 / 0 is not-a-number
DivBy(r, k) == Reduce([num |-> r.num, den |-> r.den * k])

\* a < b on floats: false as soon as one side is not-a-number
Less(a, b) == /\ ~IsNaN(a)
              /\ ~IsNaN(b)
              /\ a.num * b.den < b.num * a.den

Leq(a, b) == /\ ~IsNaN(a)
             /\ ~IsNaN(b)
             /\ a.num * b.den <= b.num * a.den

RECURSIVE SumInts(_, _)
SumInts(f, S) ==
    IF S = {} THEN 0
    ELSE LET e == CHOOSE e \in S : TRUE IN f[e] + SumInts(f, S \ {e})

RECURSIVE SumFracs(_, _)
SumFracs(s, i) ==
    IF i = 0 THEN FromInt(0) ELSE Add(SumFracs(s, i - 1), s[i])

\* -------------------------------------------------------------- continuum
TotalUnits(c) == SumInts(c, DOMAIN c)

Continua ==
    { c \in UNION { [1..n -> 0..MaxTotalUnits] : n \in 1..MaxAnnotators } :
        TotalUnits(c) <= MaxTotalUnits }

\* continuum.iterannotators() followed by continuum[annotator].itersegments():
\* the [annotator, unit] pairs of the continuum in iteration order
RECURSIVE IterUnits(_, _)
IterUnits(c, a) ==
    IF a = 0 THEN <<>>
    ELSE IterUnits(c, a - 1) \o [u \in 1..c[a] |-> <<a, u>>]

\* continuum.num_units
num_units(c) == Len(IterUnits(c, Len(c)))

\* ---------------------------------------------------------- dissimilarity
\* the pairs of units the dissimilarity is looked up for: a unit of an
\* annotator and a unit of a later annotator
UnitPairs(c) ==
    { p \in ((DOMAIN c) \X (1..MaxTotalUnits)) \X ((DOMAIN c) \X (1..MaxTotalUnits)) :
        /\ p[1][1] < p[2][1]
        /\ p[1][2] <= c[p[1][1]]
        /\ p[2][2] <= c[p[2][1]] }

Dissimilarities(c) ==
    [DELTA_EMPTY : GapCosts, d : [UnitPairs(c) -> DistValues]]

\* ----------------------------------------------- UnitaryAlignement.disorder
RECURSIVE binom(_, _)
binom(n, k) ==
    IF k = 0 THEN 1
    ELSE IF n = 0 THEN 0
    ELSE binom(n - 1, k - 1) + binom(n - 1, k)

\* the term one couple (idx < jdx) of slots adds to the disorder
CoupleCost(n_tuple, idx, jdx, dissim) ==
    IF n_tuple[idx][2] = None \/ n_tuple[jdx][2] = None
    THEN dissim.DELTA_EMPTY
    ELSE dissim.d[<<n_tuple[idx], n_tuple[jdx]>>]

Couples(n_tuple) ==
    { p \in (DOMAIN n_tuple) \X (DOMAIN n_tuple) : p[1] < p[2] }

UnitaryDisorderSum(n_tuple, dissim) ==
    SumInts([p \in Couples(n_tuple) |-> CoupleCost(n_tuple, p[1], p[2], dissim)],
            Couples(n_tuple))

UnitaryDisorderWrongDivisor(n_tuple, dissim) ==
    DivBy(FromInt(UnitaryDisorderSum(n_tuple, dissim)), Len(n_tuple))

UnitaryDisorder(n_tuple, dissim) ==
    DivBy(FromInt(UnitaryDisorderSum(n_tuple, dissim)), binom(Len(n_tuple), 2))

\* ---------------------------------------------------- set partition tests
NoError == [type |-> "none", message |-> "", annotator |-> 0, unit |-> 0]

SetPartitionError(message, slot) ==
    [type |-> "SetPartitionError", message |-> message,
     annotator |-> slot[1], unit |-> slot[2]]

OtherError(type) == [type |-> type, message |-> "", annotator |-> 0, unit |-> 0]

NotInTheSet == "not in the set of unitary alignements"

AssignedTwice == "assigned twice"

\* `[annotator, unit] in unitary_alignement.n_tuple`
InTuple(slot, n_tuple) == \E j \in DOMAIN n_tuple : n_tuple[j] = slot

\* the counter `found` once the inner loop over the unitary alignements ends
found(slot, alignements) ==
    Cardinality({ k \in DOMAIN alignements : InTuple(slot, alignements[k]) })

\* Alignement.__init__ from the unit at position i of the iteration on
RECURSIVE AlignementTestNoTwice(_, _, _)
AlignementTestNoTwice(units, set_unitary_alignments, i) ==
    IF i > Len(units) THEN NoError
    ELSE IF found(units[i], set_unitary_alignments) = 0
         THEN SetPartitionError(NotInTheSet, units[i])
         ELSE AlignementTestNoTwice(units, set_unitary_alignments, i + 1)

RECURSIVE AlignementTest(_, _, _)
AlignementTest(units, set_unitary_alignments, i) ==
    IF i > Len(units) THEN NoError
    ELSE IF found(units[i], set_unitary_alignments) = 0
         THEN SetPartitionError(NotInTheSet, units[i])
         ELSE IF found(units[i], set_unitary_alignments) > 1
              THEN SetPartitionError(AssignedTwice, units[i])
              ELSE AlignementTest(units, set_unitary_alignments, i + 1)

\* the same test, as written a second time in BestAlignement.__init__
RECURSIVE BestAlignementTestNoMissing(_, _, _)
BestAlignementTestNoMissing(units, set_unitary_alignements, i) ==
    IF i > Len(units) THEN NoError
    ELSE IF found(units[i], set_unitary_alignements) > 1
         THEN SetPartitionError(AssignedTwice, units[i])
         ELSE BestAlignementTestNoMissing(units, set_unitary_alignements, i + 1)

RECURSIVE BestAlignementTest(_, _, _)
BestAlignementTest(units, set_unitary_alignements, i) ==
    IF i > Len(units) THEN NoError
    ELSE IF found(units[i], set_unitary_alignements) = 0
         THEN SetPartitionError(NotInTheSet, units[i])
         ELSE IF found(units[i], set_unitary_alignements) > 1
              THEN SetPartitionError(AssignedTwice, units[i])
              ELSE BestAlignementTest(units, set_unitary_alignements, i + 1)

\* ------------------------------------- Alignement.disorder (and Best's)
\* the mean of the unitary disorders; dividing the float 0.0 by the int 0
\* raises ZeroDivisionError, reported here as the string
num_alignements(alignements) == Len(alignements)

\* Alignement.disorder, for a collection that is not empty: the mean of the
\* unitary disorders.  (With no unitary alignement the float 0.0 is divided
\* by the int 0, which raises ZeroDivisionError: see AlignementDisorderRead.)
AlignementDisorder(set_unitary_alignments, dissim) ==
    DivBy(SumFracs([k \in DOMAIN set_unitary_alignments |->
                       UnitaryDisorder(set_unitary_alignments[k], dissim)],
                   Len(set_unitary_alignments)),
          num_alignements(set_unitary_alignments))

\* BestAlignement.disorder, the same code over set_unitary_alignements
BestAlignementDisorder(set_unitary_alignements, dissim) ==
    DivBy(SumFracs([k \in DOMAIN set_unitary_alignements |->
                       UnitaryDisorder(set_unitary_alignements[k], dissim)],
                   Len(set_unitary_alignements)),
          num_alignements(set_unitary_alignements))

\* ------------------------------------------ get_unitary_alignements_best
\* one list per annotator: its units, then None
SegmentsWithoutNone(c) ==
    [a \in DOMAIN c |-> [i \in 1..c[a] |-> <<a, i>>]]

set_of_possible_segments(c) ==
    [a \in DOMAIN c |->
        [i \in 1..(c[a] + 1) |-> <<a, IF i <= c[a] THEN i ELSE None>>]]

\* itertools.product of the first k lists: the last list varies fastest
RECURSIVE product(_, _)
product(lists, k) ==
    IF k = 0 THEN << <<>> >>
    ELSE LET P == product(lists, k - 1)
             m == Len(lists[k])
         IN  [i \in 1..(Len(P) * m) |->
                 Append(P[((i - 1) \div m) + 1], lists[k][((i - 1) % m) + 1])]

set_of_possible_tuples(c) == product(set_of_possible_segments(c), Len(c))

\* the pruning condition of section 5.1.1
KeepsNonStrict(n_tuple, c, dissim) ==
    Leq(UnitaryDisorder(n_tuple, dissim), FromInt(Len(c) * dissim.DELTA_EMPTY))

KeepsBelowOneGap(n_tuple, c, dissim) ==
    Less(UnitaryDisorder(n_tuple, dissim), FromInt(dissim.DELTA_EMPTY))

Keeps(n_tuple, c, dissim) ==
    Less(UnitaryDisorder(n_tuple, dissim), FromInt(Len(c) * dissim.DELTA_EMPTY))

PossibleUnitaryAlignements(c, dissim) ==
    SelectSeq(set_of_possible_tuples(c), LAMBDA t : Keeps(t, c, dissim))

\* the objective vector d: the disorder of every candidate
d(candidates, dissim) ==
    [k \in DOMAIN candidates |-> UnitaryDisorder(candidates[k], dissim)]

\* the constraints matrix A: a row per unit of the continuum in iteration
\* order, a column per candidate, 1 where the candidate holds the unit
A(c, candidates) ==
    LET units == IterUnits(c, Len(c))
    IN  [r \in DOMAIN units |->
            [k \in DOMAIN candidates |->
                IF InTuple(units[r], candidates[k]) THEN 1 ELSE 0]]

\* the boolean vectors x with A x == 1 restricted to the rows `rows` and
\* the columns `cols`, each given as the set of its columns at 1;
\* rowsOf[k] is the set of rows where column k is 1
RECURSIVE Covers(_, _, _)
Covers(rowsOf, rows, cols) ==
    IF rows = {}
    THEN SUBSET { k \in cols : rowsOf[k] = {} }
    ELSE LET r == CHOOSE r \in rows : \A q \in rows : r <= q
         IN  UNION { { {k} \cup S :
                         S \in Covers(rowsOf, rows \ rowsOf[k],
                                      { j \in cols : /\ j # k
                                                     /\ rowsOf[j] \cap rowsOf[k] = {} }) } :
                     k \in { k \in cols : r \in rowsOf[k] /\ rowsOf[k] \subseteq rows } }

\* the feasible set of the program: constraints = [A x == 1]
Feasible(c, candidates) ==
    LET Amat == A(c, candidates)
        rowsOf == [k \in DOMAIN candidates |->
                      { r \in DOMAIN Amat : Amat[r][k] = 1 }]
    IN  Covers(rowsOf, DOMAIN Amat, DOMAIN candidates)

\* d.T * x
RECURSIVE Objective(_, _)
Objective(dvec, x) ==
    IF x = {} THEN FromInt(0)
    ELSE LET k == CHOOSE k \in x : TRUE
         IN  Add(dvec[k], Objective(dvec, x \ {k}))

\* what prob.solve() may leave in x.value when the solver honours
\* cp.Minimize(d.T * x) under the constraints: the minimisers
MaximalSolutions(c, candidates, dissim) ==
    LET F == Feasible(c, candidates)
        obj == [x \in F |-> Objective(d(candidates, dissim), x)]
    IN  { x \in F : \A y \in F : Leq(obj[y], obj[x]) }

Solutions(c, candidates, dissim) ==
    LET F == Feasible(c, candidates)
        obj == [x \in F |-> Objective(d(candidates, dissim), x)]
    IN  { x \in F : \A y \in F : Leq(obj[x], obj[y]) }

\* lines 282-285: the candidates whose x.value exceeds 0.9, in index order
Chosen(candidates, x) ==
    LET idx == SelectSeq([i \in DOMAIN candidates |-> i], LAMBDA i : i \in x)
    IN  [k \in DOMAIN idx |-> candidates[idx[k]]]

\* ------------------------------------------------------------------ state
VARIABLES
    pc,                                  \* where the program stands
    continuum,                           \* the continuum both classes are given
    combined_dissimilarity,              \* the dissimilarity, once it is read
    set_unitary_alignments,              \* Alignement.set_unitary_alignments
    set_of_possible_unitary_alignements, \* the pruned candidates
    x,                                   \* the solver's variable after solve()
    set_unitary_alignements,             \* BestAlignement.set_unitary_alignements
    error,                               \* the exception raised, if any
    disorder                             \* the value the disorder property returned

vars == <<pc, continuum, combined_dissimilarity, set_unitary_alignments,
          set_of_possible_unitary_alignements, x, set_unitary_alignements,
          error, disorder>>

Unsolved == [status |-> "unsolved", value |-> {}]

NoDissimilarity == [DELTA_EMPTY |-> 0, d |-> <<>>]

Range(s) == { s[i] : i \in DOMAIN s }

\* the lists of at most MaxGroupings n-tuples over the continuum
Collections(c) ==
    UNION { [1..k -> Range(set_of_possible_tuples(c))] : k \in 0..MaxGroupings }

Init ==
    /\ pc = "idle"
    /\ continuum \in Continua
    /\ combined_dissimilarity = NoDissimilarity
    /\ set_unitary_alignments = <<>>
    /\ set_of_possible_unitary_alignements = <<>>
    /\ x = Unsolved
    /\ set_unitary_alignements = <<>>
    /\ error = NoError
    /\ disorder = NaN

\* Alignement(continuum, set_unitary_alignments, combined_dissimilarity),
\* the n-tuples of the collection being tuples of [annotator, unit] lists as
\* line 235 builds them.  __init__ stores the dissimilarity and never reads
\* it: the state takes it at AlignementDisorderRead.
NewAlignement ==
    /\ pc = "idle"
    /\ \E given \in Collections(continuum) :
          LET e == AlignementTest(IterUnits(continuum, Len(continuum)), given, 1)
          IN  /\ set_unitary_alignments' = given
              /\ error' = e
              /\ pc' = IF e = NoError THEN "Alignement" ELSE "Alignement.raise"
    /\ UNCHANGED <<continuum, combined_dissimilarity,
                   set_of_possible_unitary_alignements, x,
                   set_unitary_alignements, disorder>>

\* BestAlignement(continuum, combined_dissimilarity) up to line 250: the
\* candidates and their pruning.  With one annotator binom(1, 2) is 0 and
\* line 127 divides 0.0 by numpy's 0.0: not-a-number under numpy's default
\* error state, FloatingPointError when the caller set it to raise.
GetCandidates ==
    /\ pc = "idle"
    /\ \E dissim \in Dissimilarities(continuum), errstate \in {"warn", "raise"} :
          /\ combined_dissimilarity' = dissim
          /\ IF binom(Len(continuum), 2) = 0 /\ errstate = "raise"
             THEN /\ error' = OtherError("FloatingPointError")
                  /\ pc' = "BestAlignement.raise"
                  /\ UNCHANGED set_of_possible_unitary_alignements
             ELSE /\ set_of_possible_unitary_alignements' =
                         PossibleUnitaryAlignements(continuum, dissim)
                  /\ pc' = "ilp"
                  /\ UNCHANGED error
    /\ UNCHANGED <<continuum, set_unitary_alignments, x,
                   set_unitary_alignements, disorder>>

\* lines 252-286 with a solver that honours the program: x.value is one of
\* the minimisers (the empty selection for a continuum without units);
\* without a feasible point x.value is None and line 282 compares None with
\* 0.9 (TypeError)
Solve ==
    /\ pc = "ilp"
    /\ LET S == Solutions(continuum, set_of_possible_unitary_alignements,
                          combined_dissimilarity)
       IN  IF S = {}
           THEN /\ x' = [status |-> "infeasible", value |-> {}]
                /\ error' = OtherError("TypeError")
                /\ pc' = "BestAlignement.raise"
                /\ UNCHANGED set_unitary_alignements
           ELSE \E value \in S :
                   /\ x' = [status |-> "optimal", value |-> value]
                   /\ set_unitary_alignements' =
                          Chosen(set_of_possible_unitary_alignements, value)
                   /\ pc' = "test"
                   /\ UNCHANGED error
    /\ UNCHANGED <<continuum, combined_dissimilarity, set_unitary_alignments,
                   set_of_possible_unitary_alignements, disorder>>

\* lines 252-286 with a solver that is not trusted: x.value marks any
\* candidates, at most MaxGroupings of them
SolveUntrusted ==
    /\ pc = "ilp"
    /\ \E value \in SUBSET (DOMAIN set_of_possible_unitary_alignements) :
          /\ Cardinality(value) <= MaxGroupings
          /\ x' = [status |-> "optimal", value |-> value]
          /\ set_unitary_alignements' =
                 Chosen(set_of_possible_unitary_alignements, value)
          /\ pc' = "test"
    /\ UNCHANGED <<continuum, combined_dissimilarity, set_unitary_alignments,
                   set_of_possible_unitary_alignements, error, disorder>>

\* BestAlignement.__init__ lines 212-225
PartitionTest ==
    /\ pc = "test"
    /\ LET e == BestAlignementTest(IterUnits(continuum, Len(continuum)),
                                   set_unitary_alignements, 1)
       IN  /\ error' = e
           /\ pc' = IF e = NoError THEN "BestAlignement" ELSE "BestAlignement.raise"
    /\ UNCHANGED <<continuum, combined_dissimilarity, set_unitary_alignments,
                   set_of_possible_unitary_alignements, x,
                   set_unitary_alignements, disorder>>

\* Alignement.disorder read on the constructed object, with the
\* dissimilarity the object was given (bound here, where it is first read)
AlignementDisorderRead ==
    /\ pc = "Alignement"
    /\ \E dissim \in Dissimilarities(continuum) :
          /\ combined_dissimilarity' = dissim
          /\ IF num_alignements(set_unitary_alignments) = 0
             THEN /\ error' = OtherError("ZeroDivisionError")
                  /\ pc' = "Alignement.disorder.raise"
                  /\ UNCHANGED disorder
             ELSE /\ disorder' = AlignementDisorder(set_unitary_alignments, dissim)
                  /\ pc' = "Alignement.disorder"
                  /\ UNCHANGED error
    /\ UNCHANGED <<continuum, set_unitary_alignments,
                   set_of_possible_unitary_alignements, x,
                   set_unitary_alignements>>

\* BestAlignement.disorder read on the constructed object
BestAlignementDisorderRead ==
    /\ pc = "BestAlignement"
    /\ IF num_alignements(set_unitary_alignements) = 0
       THEN /\ error' = OtherError("ZeroDivisionError")
            /\ pc' = "disorder.raise"
            /\ UNCHANGED disorder
       ELSE /\ disorder' = BestAlignementDisorder(set_unitary_alignements,
                                                  combined_dissimilarity)
            /\ pc' = "disorder"
            /\ UNCHANGED error
    /\ UNCHANGED <<continuum, combined_dissimilarity, set_unitary_alignments,
                   set_of_possible_unitary_alignements, x,
                   set_unitary_alignements>>

Next ==
    \/ NewAlignement
    \/ AlignementDisorderRead
    \/ GetCandidates
    \/ Solve
    \/ PartitionTest
    \/ BestAlignementDisorderRead

Spec == Init /\ [][Next]_vars

NextUntrusted ==
    \/ NewAlignement
    \/ AlignementDisorderRead
    \/ GetCandidates
    \/ SolveUntrusted
    \/ PartitionTest
    \/ BestAlignementDisorderRead

SpecUntrusted == Init /\ [][NextUntrusted]_vars


\* ----------------------------------------------------- what the claims say
\* the (annotator, unit) pairs of the timeline
TimelinePairs ==
    { p \in (DOMAIN continuum) \X (1..MaxTotalUnits) : p[2] <= continuum[p[1]] }

\* the number of groupings of a collection that reference the pair p
References(p, groupings) ==
    Cardinality({ k \in DOMAIN groupings :
                    \E j \in DOMAIN groupings[k] : groupings[k][j] = p })

\* the partition invariant: every pair is referenced by exactly one grouping
ExactCover(groupings) ==
    \A p \in TimelinePairs : References(p, groupings) = 1

\* timeline order: annotators in order, then each annotator's units in order
Before(p, q) == p[1] < q[1] \/ (p[1] = q[1] /\ p[2] < q[2])

Offending(groupings) ==
    { p \in TimelinePairs : References(p, groupings) # 1 }

FirstOffending(groupings) ==
    CHOOSE p \in Offending(groupings) :
        \A q \in Offending(groupings) : q = p \/ Before(p, q)

\* every tuple with one slot per annotator, a unit of that annotator or a gap
CartesianProduct ==
    { [a \in DOMAIN continuum |-> <<a, f[a]>>] :
        f \in { g \in [DOMAIN continuum -> 0..MaxTotalUnits] :
                  \A a \in DOMAIN continuum : g[a] <= continuum[a] } }

AllGap == [a \in DOMAIN continuum |-> <<a, None>>]

\* the grouping that holds the one unit p and gaps in all other slots
OneUnit(p) == [a \in DOMAIN continuum |-> IF a = p[1] THEN p ELSE <<a, None>>]

GAP_COST == combined_dissimilarity.DELTA_EMPTY

\* the Alignement constructor returned
Constructed ==
    pc \in {"Alignement", "Alignement.disorder", "Alignement.disorder.raise"}

InAlignement == Constructed \/ pc = "Alignement.raise"

InBestAlignement == pc # "idle" /\ ~InAlignement

\* some selection of the pruned candidates is an exact cover
CoverExistsAmongCandidates ==
    \E S \in SUBSET (DOMAIN set_of_possible_unitary_alignements) :
        ExactCover(Chosen(set_of_possible_unitary_alignements, S))

\* the least total disorder over the feasible selections is the same for
\* the two candidate lists (and exists for both or for neither)
SameMinimum(small, large) ==
    LET Fs == Feasible(continuum, small)
        Fl == Feasible(continuum, large)
        os == [z \in Fs |-> Objective(d(small, combined_dissimilarity), z)]
        ol == [z \in Fl |-> Objective(d(large, combined_dissimilarity), z)]
    IN  /\ \A y \in Fl : \E z \in Fs : Leq(os[z], ol[y])
        /\ \A z \in Fs : \E y \in Fl : Leq(ol[y], os[z])

\* ------------------------------------------------------------------ C1
\* C1 as stated: Alignement construction succeeds iff every pair of the
\* timeline is referenced by exactly one grouping, every pair referenced by
\* no grouping is the one named by a 'not in the set' error and every pair
\* referenced by several groupings is the one named by an 'assigned twice'
\* error.
C1_EveryOffendingPairNamed ==
    InAlignement =>
        /\ Constructed <=> ExactCover(set_unitary_alignments)
        /\ \A p \in TimelinePairs :
              References(p, set_unitary_alignments) = 0 =>
                  /\ pc = "Alignement.raise"
                  /\ error = SetPartitionError(NotInTheSet, p)
        /\ \A p \in TimelinePairs :
              References(p, set_unitary_alignments) > 1 =>
                  /\ pc = "Alignement.raise"
                  /\ error = SetPartitionError(AssignedTwice, p)

\* C1 amended: construction succeeds iff every pair is referenced by exactly
\* one grouping; otherwise it raises for the first pair, in timeline order,
\* whose count is not 1: 'not in the set' when that count is 0, 'assigned
\* twice' when it is more than 1.
C1_FirstOffendingPairNamed ==
    InAlignement =>
        /\ Constructed <=> ExactCover(set_unitary_alignments)
        /\ (pc = "Alignement") => error = NoError
        /\ ~ExactCover(set_unitary_alignments) =>
              LET p == FirstOffending(set_unitary_alignments)
              IN  /\ pc = "Alignement.raise"
                  /\ error = IF References(p, set_unitary_alignments) = 0
                             THEN SetPartitionError(NotInTheSet, p)
                             ELSE SetPartitionError(AssignedTwice, p)

\* a unit assigned twice is reported while a later unit is in no grouping
C1_Witness ==
    /\ pc = "Alignement.raise"
    /\ error.message = AssignedTwice
    /\ \E p \in TimelinePairs : References(p, set_unitary_alignments) = 0

\* ------------------------------------------------------------------ C2
\* C2: whatever selection the solve step returns, BestAlignement
\* construction either raises SetPartitionError or completes with a
\* selection that references every pair of the timeline exactly once.
C2_SolverOutputValidated ==
    (x.status = "optimal" /\ pc # "test") =>
        \/ /\ pc = "BestAlignement.raise"
           /\ error.type = "SetPartitionError"
        \/ /\ pc \in {"BestAlignement", "disorder", "disorder.raise"}
           /\ ExactCover(set_unitary_alignements)

\* the solver returned a selection that covers a unit twice, and it was refused
C2_Witness ==
    /\ pc = "BestAlignement.raise"
    /\ x.status = "optimal"
    /\ error.message = AssignedTwice
    /\ ~ExactCover(set_unitary_alignements)

\* ------------------------------------------------------------------ C3
\* the collections without repetition that satisfy the partition invariant
ValidAlignements ==
    { Chosen(set_of_possible_tuples(continuum), S) :
        S \in Feasible(continuum, set_of_possible_tuples(continuum)) }

\* C3: with 2 or 3 annotators the disorder BestAlignement reports is at most
\* the disorder of every Alignement over the same continuum that passes the
\* partition test.
C3_Optimality ==
    (pc = "disorder" /\ Len(continuum) \in 2..3) =>
        \A other \in ValidAlignements :
            ( /\ Len(other) > 0
              /\ AlignementTest(IterUnits(continuum, Len(continuum)), other, 1)
                     = NoError )
            => Leq(disorder, AlignementDisorder(other, combined_dissimilarity))

\* ------------------------------------------------------------------ C4
\* C4: the candidates handed to the solver are exactly the tuples of the
\* Cartesian product whose disorder is strictly below
\* number_of_annotators * GAP_COST, each once; none at or above the bound.
C4_CandidatesArePrunedProduct ==
    pc = "ilp" =>
        LET bound == FromInt(Len(continuum) * GAP_COST)
            cand == Range(set_of_possible_unitary_alignements)
        IN  /\ cand = { t \in CartesianProduct :
                          Less(UnitaryDisorder(t, combined_dissimilarity), bound) }
            /\ \A t \in cand :
                  ~Leq(bound, UnitaryDisorder(t, combined_dissimilarity))
            /\ Len(set_of_possible_unitary_alignements) = Cardinality(cand)

\* some tuples were pruned and some survive
C4_Witness ==
    /\ pc = "ilp"
    /\ GAP_COST > 0
    /\ Len(set_of_possible_unitary_alignements) > 0
    /\ Len(set_of_possible_unitary_alignements) < Cardinality(CartesianProduct)

\* ------------------------------------------------------------------ C5
\* C5: when no selection of the pruned candidates is an exact cover, the
\* solve step ends in the dedicated SolverInfeasible outcome.
C5_ExplicitInfeasibility ==
    (x.status # "unsolved" /\ ~CoverExistsAmongCandidates) =>
        /\ pc = "BestAlignement.raise"
        /\ error.type = "SolverInfeasible"

\* ------------------------------------------------------------------ C6
\* C6: with exactly one annotator, building a BestAlignement is refused
\* with DegenerateInput and no disorder value is produced.
C6_DegenerateInputRejected ==
    (InBestAlignement /\ Len(continuum) = 1) =>
        /\ pc = "BestAlignement.raise"
        /\ error.type = "DegenerateInput"

\* ------------------------------------------------------------------ C7
\* two annotators, one unit each; dissimilarity 0.2 and DELTA_EMPTY 1.0 are
\* 1 and 5 grid steps
Pairing == << <<1, 1>>, <<2, 1>> >>

C7_Timeline == continuum = <<1, 1>>

C7_Dissimilarity ==
    /\ InBestAlignement
    /\ combined_dissimilarity.DELTA_EMPTY = 5
    /\ combined_dissimilarity.d[Pairing] = 1

C7_BestSelectsPairing ==
    /\ (C7_Dissimilarity /\ x.status # "unsolved") =>
           /\ x.status = "optimal"
           /\ set_unitary_alignements = <<Pairing>>
    /\ (C7_Dissimilarity /\ pc \in {"BestAlignement", "disorder"}) =>
           error = NoError
    /\ (C7_Dissimilarity /\ pc = "disorder") => disorder = FromInt(1)

\* C7 as stated: the single grouping pairing both units is the only
\* collection that passes the partition test, every other collection leaves
\* a unit uncovered, and BestAlignement selects it and reports 0.2.
C7_PairingIsTheOnlyCover ==
    C7_Timeline =>
        /\ Constructed => set_unitary_alignments = <<Pairing>>
        /\ (InAlignement /\ set_unitary_alignments # <<Pairing>>) =>
               /\ pc = "Alignement.raise"
               /\ error.message = NotInTheSet
        /\ C7_BestSelectsPairing

\* C7 amended: the single grouping pairing both units passes the partition
\* test, and so does the collection of the two groupings that hold one unit
\* and a gap each; BestAlignement selects the single pairing and reports 0.2.
C7_PairingIsTheBestCover ==
    C7_Timeline =>
        /\ (InAlignement /\ set_unitary_alignments = <<Pairing>>) =>
               Constructed
        /\ (InAlignement /\ set_unitary_alignments =
                << OneUnit(<<1, 1>>), OneUnit(<<2, 1>>) >>) =>
               Constructed
        /\ C7_BestSelectsPairing

C7_Witness ==
    /\ C7_Timeline
    /\ C7_Dissimilarity
    /\ pc = "disorder"
    /\ set_unitary_alignements = <<Pairing>>

\* ------------------------------------------------------------------ C8
AllGapDisorderIsGapCost ==
    /\ UnitaryDisorderSum(AllGap, combined_dissimilarity)
           = binom(Len(continuum), 2) * GAP_COST
    /\ UnitaryDisorder(AllGap, combined_dissimilarity) = FromInt(GAP_COST)

C9_PruningKeepsOptimum ==
    (pc = "ilp" /\ Len(continuum) >= 2) =>
        SameMinimum(set_of_possible_unitary_alignements,
                    set_of_possible_tuples(continuum))

\* C9 amended: the same, for GAP_COST > 0; with GAP_COST = 0 and at least
\* one unit the pruned candidates hold no exact cover while the whole
\* product does.
C9_PruningKeepsOptimumPositiveGap ==
    (pc = "ilp" /\ Len(continuum) >= 2) =>
        IF GAP_COST > 0
        THEN SameMinimum(set_of_possible_unitary_alignements,
                         set_of_possible_tuples(continuum))
        ELSE TimelinePairs # {} =>
                /\ Feasible(continuum, set_of_possible_unitary_alignements) = {}
                /\ Feasible(continuum, set_of_possible_tuples(continuum)) # {}

\* a grouping that holds two units or more was pruned, with a positive gap cost
C9_Witness ==
    /\ pc = "ilp"
    /\ Len(continuum) >= 2
    /\ GAP_COST > 0
    /\ \E t \in CartesianProduct :
          /\ t \notin Range(set_of_possible_unitary_alignements)
          /\ Cardinality({ a \in DOMAIN t : t[a][2] # None }) >= 2

\* ----------------------------------------------------------------- C10
\* C10: with at least two annotators and GAP_COST > 0 every grouping that
\* holds one unit and gaps elsewhere has disorder GAP_COST and survives the
\* pruning, so the candidates hold an exact cover and the program is
\* feasible; with GAP_COST = 0 no candidate survives and a timeline with a
\* unit has no exact cover.
C10_ImplicitFeasibility ==
    (pc = "ilp" /\ Len(continuum) >= 2) =>
        IF GAP_COST > 0
        THEN /\ \A p \in TimelinePairs :
                   /\ UnitaryDisorder(OneUnit(p), combined_dissimilarity)
                          = FromInt(GAP_COST)
                   /\ OneUnit(p) \in Range(set_of_possible_unitary_alignements)
             /\ CoverExistsAmongCandidates
             /\ Feasible(continuum, set_of_possible_unitary_alignements) # {}
        ELSE /\ set_of_possible_unitary_alignements = <<>>
             /\ TimelinePairs # {} =>
                   /\ ~CoverExistsAmongCandidates
                   /\ Feasible(continuum, set_of_possible_unitary_alignements) = {}

C10_Witness ==
    /\ pc = "ilp"
    /\ Len(continuum) = 3
    /\ GAP_COST = 1
    /\ Cardinality(TimelinePairs) = 3
    /\ \A p \in TimelinePairs :
          OneUnit(p) \in Range(set_of_possible_unitary_alignements)

====
